---- MODULE Spec2Model ----
(***************************************************************************)
(* S3manager.py: one invocation of the command-line tool against a remote  *)
(* object store and the local filesystem.  Every call on s3_client is one  *)
(* atomic step; between two calls of the tool other actors may modify the  *)
(* remote store.                                                           *)
(***************************************************************************)
EXTENDS Naturals, Sequences, FiniteSets, TLC

\* ---------------------------------------------------------------- bounds
\* Number of modifications other actors make to the store during one run.
MaxExt == 2

\* ---------------------------------------------------------------- universe
Buckets == {"demo", "other"}
\* Keys in the order list_objects returns them (lexicographic).
KeyOrder == <<"a.txt", "b.txt">>
Keys == {KeyOrder[i] : i \in 1..Len(KeyOrder)}
Contents == {"c1", "c2"}
NoObj == "absent"
\* A local path is the sequence of its "/"-separated components.
HostFiles == {<<"f">>, <<"d", "e", "f">>}
OldPath(p) == [p EXCEPT ![Len(p)] = @ \o ".old"]
AllFiles == HostFiles \cup {OldPath(p) : p \in HostFiles}

VARIABLES
    cmd,        \* parsed arguments: subparser_name, bucket_name, bucket_file, host_file, f
    pc,         \* line of the next s3_client call ("return": at exit_code, "exited")
    buckets,    \* remote: names of the existing buckets
    objects,    \* remote: objects[b][k] is the content of key k in bucket b, or NoObj
    dirs,       \* local: existing directories
    files,      \* local: files[p] is the content of regular file p, or NoObj
    content,    \* delete_all_files: the listed keys not yet swept
    ret,        \* value handed to exit_code: "unset", "True", "False", "None"
    log,        \* error messages written, in order
    calls,      \* calls on s3_client issued and changes other actors made, in order
    exitCode,   \* process exit status, -1 while running (as a string)
    extLeft,    \* modifications other actors may still make
    pre         \* remote and local state when the invocation started

vars == <<cmd, pc, buckets, objects, dirs, files, content, ret, log, calls,
          exitCode, extLeft, pre>>

\* ---------------------------------------------------------------- helpers
EmptyBucket == [k \in Keys |-> NoObj]

\* bucket_exists: exact name match over list_buckets
bucket_exists(b) == b \in buckets

\* bucket_content: the keys of list_objects, in listing order
bucket_content(b) == SelectSeq(KeyOrder, LAMBDA k : objects[b][k] # NoObj)

SeqToSet(s) == {s[i] : i \in 1..Len(s)}

\* file_check: filename in bucket_content
file_check(k, b) == k \in SeqToSet(bucket_content(b))

\* os.path.isfile
isfile(p) == files[p] # NoObj

\* dst_dir = "/".join(host_file.split("/")[:-1])
dst_dir(p) == SubSeq(p, 1, Len(p) - 1)

\* os.makedirs: the directory and every missing parent
Parents(d) == {SubSeq(d, 1, n) : n \in 1..Len(d)}
makedirs(d) == dirs \cup Parents(d)

\* The key delete_file works on: the argument of the subcommand, or the
\* loop variable of delete_all_files.
bucket_file ==
    IF cmd.subparser_name \in {"delete-all-files", "delete-bucket"} THEN Head(content)
    ELSE cmd.bucket_file

Running == pc \notin {"return", "exited"}

\* return False after writing an error message
Fail(msg) ==
    /\ pc' = "return"
    /\ ret' = "False"
    /\ log' = Append(log, msg)

\* an exception of the client that nothing catches: traceback, exit status 1
Fault(msg) ==
    /\ pc' = "exited"
    /\ exitCode' = "1"
    /\ log' = Append(log, msg)
    /\ UNCHANGED <<ret, buckets, objects, dirs, files, content>>

\* the calls on s3_client, as events
list_buckets == <<"list_buckets">>
list_objects == <<"list_objects", cmd.bucket_name>>
Issue(call) == calls' = Append(calls, call)

\* ---------------------------------------------------------------- upload_file
\* line 90: bucket_exists; lines 96-98 follow when the bucket is there
HostFileCheck ==
    IF ~isfile(cmd.host_file) THEN Fail("LocalFileNotFound")
    ELSE pc' = "up99" /\ UNCHANGED <<ret, log>>

\* variant: the local file is tested before the bucket is looked up
up90_file_first ==
    /\ pc = "up90"
    /\ Issue(list_buckets)
    /\ IF ~isfile(cmd.host_file) THEN Fail("LocalFileNotFound")
       ELSE IF ~bucket_exists(cmd.bucket_name)
              THEN pc' = "up91" /\ UNCHANGED <<ret, log>>
              ELSE pc' = "up99" /\ UNCHANGED <<ret, log>>
    /\ UNCHANGED <<cmd, buckets, objects, dirs, files, content, exitCode, extLeft, pre>>

\* variant: a missing bucket is not created
up90_without_create ==
    /\ pc = "up90"
    /\ Issue(list_buckets)
    /\ HostFileCheck
    /\ UNCHANGED <<cmd, buckets, objects, dirs, files, content, exitCode, extLeft, pre>>

up90 ==
    /\ pc = "up90"
    /\ Issue(list_buckets)
    /\ IF ~bucket_exists(cmd.bucket_name)
         THEN pc' = "up91" /\ UNCHANGED <<ret, log>>
         ELSE HostFileCheck
    /\ UNCHANGED <<cmd, buckets, objects, dirs, files, content, exitCode, extLeft, pre>>

\* line 91: create_bucket.  Creating a bucket that (by now) exists either
\* succeeds or raises, depending on the region.
up91 ==
    /\ pc = "up91"
    /\ Issue(<<"create_bucket", cmd.bucket_name>>)
    /\ UNCHANGED <<cmd, extLeft, pre>>
    /\ \/ /\ buckets' = buckets \cup {cmd.bucket_name}
          /\ pc' = "up92"
          /\ UNCHANGED <<objects, dirs, files, content, ret, log, exitCode>>
       \/ /\ bucket_exists(cmd.bucket_name)
          /\ Fault("BucketAlreadyOwnedByYou")

\* lines 92-98
up92 ==
    /\ pc = "up92"
    /\ Issue(list_buckets)
    /\ IF ~bucket_exists(cmd.bucket_name)
         THEN Fail("BucketCreateFailed")
         ELSE HostFileCheck
    /\ UNCHANGED <<cmd, buckets, objects, dirs, files, content, exitCode, extLeft, pre>>

\* variant: an existing key never stops the upload
up99_ignoring_force ==
    /\ pc = "up99"
    /\ Issue(list_objects)
    /\ UNCHANGED <<cmd, extLeft, pre>>
    /\ IF ~bucket_exists(cmd.bucket_name) THEN Fault("NoSuchBucket")
       ELSE /\ pc' = "up103" /\ UNCHANGED <<ret, log>>
            /\ UNCHANGED <<buckets, objects, dirs, files, content, exitCode>>

\* lines 99-102: file_check, then the force test
up99 ==
    /\ pc = "up99"
    /\ Issue(list_objects)
    /\ UNCHANGED <<cmd, extLeft, pre>>
    /\ IF ~bucket_exists(cmd.bucket_name) THEN Fault("NoSuchBucket")
       ELSE /\ IF file_check(cmd.bucket_file, cmd.bucket_name) /\ ~cmd.f
                 THEN Fail("ObjectAlreadyExists")
                 ELSE pc' = "up103" /\ UNCHANGED <<ret, log>>
            /\ UNCHANGED <<buckets, objects, dirs, files, content, exitCode>>

\* line 103: s3_client.upload_file
up103 ==
    /\ pc = "up103"
    /\ Issue(<<"upload_file", cmd.bucket_name, cmd.bucket_file>>)
    /\ UNCHANGED <<cmd, extLeft, pre>>
    /\ IF ~bucket_exists(cmd.bucket_name) THEN Fault("NoSuchBucket")
       ELSE /\ objects' = [objects EXCEPT ![cmd.bucket_name][cmd.bucket_file] = files[cmd.host_file]]
            /\ pc' = "up104"
            /\ UNCHANGED <<buckets, dirs, files, content, ret, log, exitCode>>

\* lines 104-109
up104 ==
    /\ pc = "up104"
    /\ Issue(list_objects)
    /\ UNCHANGED <<cmd, extLeft, pre>>
    /\ IF ~bucket_exists(cmd.bucket_name) THEN Fault("NoSuchBucket")
       ELSE /\ IF ~file_check(cmd.bucket_file, cmd.bucket_name)
                 THEN Fail("UploadVerificationFailed")
                 ELSE pc' = "return" /\ ret' = "True" /\ log' = log
            /\ UNCHANGED <<buckets, objects, dirs, files, content, exitCode>>

\* ---------------------------------------------------------------- download_file
\* lines 123-126: the destination directory is made before anything is asked
\* of the store
dl123 ==
    /\ pc = "dl123"
    /\ dirs' = IF dst_dir(cmd.host_file) # <<>> /\ dst_dir(cmd.host_file) \notin dirs
                 THEN makedirs(dst_dir(cmd.host_file))
                 ELSE dirs
    /\ pc' = "dl127"
    /\ UNCHANGED <<cmd, buckets, objects, files, content, ret, log, calls, exitCode, extLeft, pre>>

\* lines 127-134: file_check (list_objects raises for a missing bucket),
\* then the local test
dl127 ==
    /\ pc = "dl127"
    /\ Issue(list_objects)
    /\ UNCHANGED <<cmd, extLeft, pre>>
    /\ IF ~bucket_exists(cmd.bucket_name) THEN Fault("NoSuchBucket")
       ELSE /\ IF ~file_check(cmd.bucket_file, cmd.bucket_name)
                 THEN Fail("ObjectNotFound")
                 ELSE IF isfile(cmd.host_file) /\ ~cmd.f
                        THEN Fail("LocalFileExists")
                        ELSE pc' = "dl135" /\ UNCHANGED <<ret, log>>
            /\ UNCHANGED <<buckets, objects, dirs, files, content, exitCode>>

\* variant: an existing destination is first renamed to <path>.old
dl135_keeping_old ==
    /\ pc = "dl135"
    /\ Issue(<<"download_file", cmd.bucket_name, cmd.bucket_file>>)
    /\ UNCHANGED <<cmd, extLeft, pre>>
    /\ IF ~bucket_exists(cmd.bucket_name) \/ ~file_check(cmd.bucket_file, cmd.bucket_name)
         THEN Fault("NoSuchKey")
         ELSE /\ files' = [files EXCEPT
                             ![OldPath(cmd.host_file)] =
                                 IF isfile(cmd.host_file) THEN files[cmd.host_file] ELSE @,
                             ![cmd.host_file] = objects[cmd.bucket_name][cmd.bucket_file]]
              /\ pc' = "return" /\ ret' = "True" /\ log' = log
              /\ UNCHANGED <<buckets, objects, dirs, content, exitCode>>

\* lines 135-143: s3_client.download_file writes the object to host_file,
\* replacing what is there; nothing is renamed
dl135 ==
    /\ pc = "dl135"
    /\ Issue(<<"download_file", cmd.bucket_name, cmd.bucket_file>>)
    /\ UNCHANGED <<cmd, extLeft, pre>>
    /\ IF ~bucket_exists(cmd.bucket_name) \/ ~file_check(cmd.bucket_file, cmd.bucket_name)
         THEN Fault("NoSuchKey")
         ELSE /\ files' = [files EXCEPT ![cmd.host_file] = objects[cmd.bucket_name][cmd.bucket_file]]
              /\ IF files'[cmd.host_file] = NoObj
                   THEN Fail("DownloadVerificationFailed")
                   ELSE pc' = "return" /\ ret' = "True" /\ log' = log
              /\ UNCHANGED <<buckets, objects, dirs, content, exitCode>>

\* ---------------------------------------------------------------- delete_all_files
\* after the loop of delete_all_files: the function returns nothing
AfterDeleteAll ==
    IF cmd.subparser_name = "delete-all-files"
      THEN pc' = "return" /\ ret' = "None"
      ELSE pc' = "db203" /\ ret' = ret

\* delete_file returns r: to exit_code, or to the loop of delete_all_files,
\* which drops the value and goes on with the next listed key
AfterDeleteFile(r) ==
    IF cmd.subparser_name = "delete-file"
      THEN pc' = "return" /\ ret' = r /\ content' = content
      ELSE /\ content' = Tail(content)
           /\ IF content' # <<>> THEN pc' = "df155" /\ ret' = ret
                                 ELSE AfterDeleteAll

\* line 180: bucket_content, unguarded
da180 ==
    /\ pc = "da180"
    /\ Issue(list_objects)
    /\ UNCHANGED <<cmd, extLeft, pre>>
    /\ IF ~bucket_exists(cmd.bucket_name) THEN Fault("NoSuchBucket")
       ELSE /\ content' = bucket_content(cmd.bucket_name)
            /\ IF content' = <<>> THEN AfterDeleteAll
                                  ELSE pc' = "df155" /\ ret' = ret
            /\ UNCHANGED <<buckets, objects, dirs, files, log, exitCode>>

\* ---------------------------------------------------------------- delete_file
\* lines 155-158
df155 ==
    /\ pc = "df155"
    /\ Issue(list_buckets)
    /\ IF ~bucket_exists(cmd.bucket_name)
         THEN log' = Append(log, "BucketNotFound") /\ AfterDeleteFile("False")
         ELSE pc' = "df159" /\ UNCHANGED <<ret, log, content>>
    /\ UNCHANGED <<cmd, buckets, objects, dirs, files, exitCode, extLeft, pre>>

\* variant: the key is deleted without being looked up first
df159_without_check ==
    /\ pc = "df159"
    /\ Issue(list_objects)
    /\ UNCHANGED <<cmd, extLeft, pre>>
    /\ IF ~bucket_exists(cmd.bucket_name) THEN Fault("NoSuchBucket")
       ELSE /\ pc' = "df163" /\ UNCHANGED <<ret, log, content>>
            /\ UNCHANGED <<buckets, objects, dirs, files, exitCode>>

\* lines 159-162
df159 ==
    /\ pc = "df159"
    /\ Issue(list_objects)
    /\ UNCHANGED <<cmd, extLeft, pre>>
    /\ IF ~bucket_exists(cmd.bucket_name) THEN Fault("NoSuchBucket")
       ELSE /\ IF ~file_check(bucket_file, cmd.bucket_name)
                 THEN log' = Append(log, "ObjectNotFound") /\ AfterDeleteFile("False")
                 ELSE pc' = "df163" /\ UNCHANGED <<ret, log, content>>
            /\ UNCHANGED <<buckets, objects, dirs, files, exitCode>>

\* line 163: s3_client.delete_object (deleting an absent key is no error)
df163 ==
    /\ pc = "df163"
    /\ Issue(<<"delete_object", cmd.bucket_name, bucket_file>>)
    /\ UNCHANGED <<cmd, extLeft, pre>>
    /\ IF ~bucket_exists(cmd.bucket_name) THEN Fault("NoSuchBucket")
       ELSE /\ objects' = [objects EXCEPT ![cmd.bucket_name][bucket_file] = NoObj]
            /\ pc' = "df164"
            /\ UNCHANGED <<buckets, dirs, files, content, ret, log, exitCode>>

\* variant: the test after the delete is inverted
df164_inverted ==
    /\ pc = "df164"
    /\ Issue(list_objects)
    /\ UNCHANGED <<cmd, extLeft, pre>>
    /\ IF ~bucket_exists(cmd.bucket_name) THEN Fault("NoSuchBucket")
       ELSE /\ IF ~file_check(bucket_file, cmd.bucket_name)
                 THEN log' = Append(log, "DeleteVerificationFailed") /\ AfterDeleteFile("False")
                 ELSE log' = log /\ AfterDeleteFile("True")
            /\ UNCHANGED <<buckets, objects, dirs, files, exitCode>>

\* lines 164-169
df164 ==
    /\ pc = "df164"
    /\ Issue(list_objects)
    /\ UNCHANGED <<cmd, extLeft, pre>>
    /\ IF ~bucket_exists(cmd.bucket_name) THEN Fault("NoSuchBucket")
       ELSE /\ IF file_check(bucket_file, cmd.bucket_name)
                 THEN log' = Append(log, "DeleteVerificationFailed") /\ AfterDeleteFile("False")
                 ELSE log' = log /\ AfterDeleteFile("True")
            /\ UNCHANGED <<buckets, objects, dirs, files, exitCode>>

\* ---------------------------------------------------------------- delete_bucket
\* lines 194-196
db194 ==
    /\ pc = "db194"
    /\ Issue(list_buckets)
    /\ IF ~bucket_exists(cmd.bucket_name)
         THEN Fail("BucketNotFound")
         ELSE pc' = "db197" /\ UNCHANGED <<ret, log>>
    /\ UNCHANGED <<cmd, buckets, objects, dirs, files, content, exitCode, extLeft, pre>>

\* variant: a non-empty bucket is deleted without sweeping its objects
db197_without_sweep ==
    /\ pc = "db197"
    /\ Issue(list_objects)
    /\ UNCHANGED <<cmd, extLeft, pre>>
    /\ IF ~bucket_exists(cmd.bucket_name) THEN Fault("NoSuchBucket")
       ELSE /\ IF bucket_content(cmd.bucket_name) # <<>> /\ ~cmd.f
                 THEN Fail("BucketNotEmpty")
                 ELSE pc' = "db203" /\ UNCHANGED <<ret, log>>
            /\ UNCHANGED <<buckets, objects, dirs, files, content, exitCode>>

\* variant: the force flag is not consulted
db197_ignoring_force ==
    /\ pc = "db197"
    /\ Issue(list_objects)
    /\ UNCHANGED <<cmd, extLeft, pre>>
    /\ IF ~bucket_exists(cmd.bucket_name) THEN Fault("NoSuchBucket")
       ELSE /\ IF bucket_content(cmd.bucket_name) # <<>>
                 THEN pc' = "da180" /\ UNCHANGED <<ret, log>>
                 ELSE pc' = "db203" /\ UNCHANGED <<ret, log>>
            /\ UNCHANGED <<buckets, objects, dirs, files, content, exitCode>>

\* lines 197-202
db197 ==
    /\ pc = "db197"
    /\ Issue(list_objects)
    /\ UNCHANGED <<cmd, extLeft, pre>>
    /\ IF ~bucket_exists(cmd.bucket_name) THEN Fault("NoSuchBucket")
       ELSE /\ IF bucket_content(cmd.bucket_name) # <<>>
                 THEN IF ~cmd.f THEN Fail("BucketNotEmpty")
                                ELSE pc' = "da180" /\ UNCHANGED <<ret, log>>
                 ELSE pc' = "db203" /\ UNCHANGED <<ret, log>>
            /\ UNCHANGED <<buckets, objects, dirs, files, content, exitCode>>

\* line 203: s3_client.delete_bucket raises for a missing or non-empty bucket
db203 ==
    /\ pc = "db203"
    /\ Issue(<<"delete_bucket", cmd.bucket_name>>)
    /\ UNCHANGED <<cmd, extLeft, pre>>
    /\ IF ~bucket_exists(cmd.bucket_name) THEN Fault("NoSuchBucket")
       ELSE IF bucket_content(cmd.bucket_name) # <<>> THEN Fault("BucketNotEmpty")
       ELSE /\ buckets' = buckets \ {cmd.bucket_name}
            /\ pc' = "db204"
            /\ UNCHANGED <<objects, dirs, files, content, ret, log, exitCode>>

\* lines 204-209
db204 ==
    /\ pc = "db204"
    /\ Issue(list_buckets)
    /\ IF bucket_exists(cmd.bucket_name)
         THEN Fail("BucketDeleteVerificationFailed")
         ELSE pc' = "return" /\ ret' = "True" /\ log' = log
    /\ UNCHANGED <<cmd, buckets, objects, dirs, files, content, exitCode, extLeft, pre>>

\* ---------------------------------------------------------------- exit_code
\* lines 212-221: only the value True exits 0
exit_code ==
    /\ pc = "return"
    /\ pc' = "exited"
    /\ exitCode' = IF ret = "True" THEN "0" ELSE "1"
    /\ UNCHANGED <<cmd, buckets, objects, dirs, files, content, ret, log, calls, extLeft, pre>>

\* ---------------------------------------------------------------- other actors
\* The remote store is shared: between two calls of the tool another client
\* may create or delete a bucket or an object.
\* Only changes to the bucket named on the command line are
\* modelled: the tool matches no other name in list_buckets and lists no
\* other bucket.
EntryPc(op) ==
    CASE op = "upload" -> "up90"
      [] op = "download" -> "dl123"
      [] op = "delete-file" -> "df155"
      [] op = "delete-all-files" -> "da180"
      [] op = "delete-bucket" -> "db194"

\* the tool has made its first call on the store and has not returned
BetweenCalls == Running /\ calls # <<>>

ExtStep ==
    /\ BetweenCalls
    /\ extLeft > 0
    /\ extLeft' = extLeft - 1
    /\ UNCHANGED <<cmd, pc, dirs, files, content, ret, log, exitCode, pre>>

ExtPutObject ==
    /\ ExtStep
    /\ bucket_exists(cmd.bucket_name)
    /\ \E k \in Keys :
         /\ objects' = [objects EXCEPT ![cmd.bucket_name][k] = "c2"]
         /\ Issue(<<"ext_put", cmd.bucket_name, k>>)
    /\ UNCHANGED buckets

ExtDeleteObject ==
    /\ ExtStep
    /\ \E k \in Keys :
         /\ objects[cmd.bucket_name][k] # NoObj
         /\ objects' = [objects EXCEPT ![cmd.bucket_name][k] = NoObj]
         /\ Issue(<<"ext_delete", cmd.bucket_name, k>>)
    /\ UNCHANGED buckets

ExtCreateBucket ==
    /\ ExtStep
    /\ ~bucket_exists(cmd.bucket_name)
    /\ buckets' = buckets \cup {cmd.bucket_name}
    /\ Issue(<<"ext_create_bucket", cmd.bucket_name>>)
    /\ UNCHANGED objects

ExtDeleteBucket ==
    /\ ExtStep
    /\ bucket_exists(cmd.bucket_name)
    /\ bucket_content(cmd.bucket_name) = <<>>
    /\ buckets' = buckets \ {cmd.bucket_name}
    /\ Issue(<<"ext_delete_bucket", cmd.bucket_name>>)
    /\ UNCHANGED objects

\* ---------------------------------------------------------------- initial states
\* main, lines 236-247: the arguments each subcommand takes
Commands ==
    [subparser_name : {"upload", "download"}, bucket_name : Buckets,
     bucket_file : Keys, host_file : HostFiles, f : BOOLEAN]
    \cup [subparser_name : {"delete-file"}, bucket_name : Buckets,
          bucket_file : Keys, host_file : {<<"f">>}, f : {FALSE}]
    \cup [subparser_name : {"delete-all-files"}, bucket_name : Buckets,
          bucket_file : {KeyOrder[1]}, host_file : {<<"f">>}, f : {FALSE}]
    \cup [subparser_name : {"delete-bucket"}, bucket_name : Buckets,
          bucket_file : {KeyOrder[1]}, host_file : {<<"f">>}, f : BOOLEAN]

\* remote stores the run may start from: objects live in existing buckets
Stores ==
    {s \in [buckets : SUBSET Buckets,
            objects : [Buckets -> [Keys -> {"c1", NoObj}]]] :
        \A b \in Buckets : b \notin s.buckets => s.objects[b] = EmptyBucket}

\* local filesystems the run may start from: the file named on the command
\* line and its ".old" neighbour may exist; a file's directory exists
Locals(c) ==
    IF c.subparser_name \notin {"upload", "download"}
      THEN {[dirs |-> {}, files |-> [p \in AllFiles |-> NoObj]]}
      ELSE {[dirs |-> d,
             files |-> [p \in AllFiles |->
                          IF p = c.host_file THEN h
                          ELSE IF p = OldPath(c.host_file) THEN o ELSE NoObj]] :
              <<h, o, d>> \in
                {x \in (Contents \cup {NoObj})
                        \X (IF c.subparser_name = "download" THEN {"c1", NoObj} ELSE {NoObj})
                        \X {{}, Parents(dst_dir(c.host_file))} :
                   (x[1] # NoObj \/ x[2] # NoObj) => x[3] = Parents(dst_dir(c.host_file))}}

Init ==
    /\ cmd \in Commands
    /\ pc = EntryPc(cmd.subparser_name)
    /\ \E s \in Stores : buckets = s.buckets /\ objects = s.objects
    /\ \E l \in Locals(cmd) : dirs = l.dirs /\ files = l.files
    /\ content = <<>>
    /\ ret = "unset"
    /\ log = <<>>
    /\ calls = <<>>
    /\ exitCode = "-1"
    /\ extLeft = MaxExt
    /\ pre = [buckets |-> buckets, objects |-> objects, dirs |-> dirs, files |-> files]

Next ==
    \/ up90 \/ up91 \/ up92 \/ up99 \/ up103 \/ up104
    \/ dl123 \/ dl127 \/ dl135
    \/ da180
    \/ df155 \/ df159 \/ df163 \/ df164
    \/ db194 \/ db197 \/ db203 \/ db204
    \/ exit_code
    \/ ExtPutObject \/ ExtDeleteObject \/ ExtCreateBucket \/ ExtDeleteBucket

Spec == Init /\ [][Next]_vars

\* ---------------------------------------------------------------- properties
B == cmd.bucket_name
K == cmd.bucket_file
H == cmd.host_file

\* no other actor has touched the store during this invocation
Quiet == extLeft = MaxExt
Returned == pc \in {"return", "exited"}
\* the invocation ended in an uncaught exception
Faulted == pc = "exited" /\ ret = "unset"
Issued(call) == \E i \in 1..Len(calls) : calls[i] = call
StoreUnchanged == buckets = pre.buckets /\ objects = pre.objects
LocalUnchanged == dirs = pre.dirs /\ files = pre.files
ExitIs(code) == pc = "exited" => exitCode = code
\* what other actors did since the tool's latest call
ExtSinceLastCall ==
    {calls[i] : i \in {n \in 1..Len(calls) :
        \A j \in n..Len(calls) :
            calls[j][1] \in {"ext_put", "ext_delete", "ext_create_bucket", "ext_delete_bucket"}}}

\* C1: with no other actor interfering, an upload of a regular file to a key
\* that is already in the bucket fails with ObjectAlreadyExists when force is
\* off (no upload call, store unchanged, exit 1) and succeeds when force is on,
\* leaving the local file's content under the key (exit 0).
C1_UploadToExistingKey ==
    (/\ cmd.subparser_name = "upload" /\ Quiet
     /\ pre.files[H] # NoObj /\ pre.objects[B][K] # NoObj)
    => /\ ~Faulted
       /\ ~cmd.f => /\ ~Issued(<<"upload_file", B, K>>)
                    /\ StoreUnchanged
                    /\ Returned => ret = "False" /\ log = <<"ObjectAlreadyExists">>
                    /\ ExitIs("1")
       /\ cmd.f => /\ Returned => /\ ret = "True"
                                  /\ objects[B][K] = pre.files[H]
                                  /\ Issued(<<"upload_file", B, K>>)
                   /\ ExitIs("0")

C1_Witness ==
    /\ cmd.subparser_name = "upload" /\ Quiet /\ cmd.f
    /\ pre.files[H] = "c2" /\ pre.objects[B][K] = "c1"
    /\ pc = "exited" /\ exitCode = "0" /\ objects[B][K] = "c2"

\* C2: with no other actor interfering, a download of a key that is not in
\* the (existing) bucket fails with ObjectNotFound and leaves the local
\* files and directories exactly as they were.
C2_FailedDownloadLeavesLocalUntouched ==
    (/\ cmd.subparser_name = "download" /\ Quiet
     /\ B \in pre.buckets /\ pre.objects[B][K] = NoObj
     /\ Returned)
    => /\ ret = "False" /\ log = <<"ObjectNotFound">>
       /\ LocalUnchanged

C4_DeleteAllFilesExitsZero ==
    (/\ cmd.subparser_name = "delete-all-files"
     /\ pre.objects[B] # EmptyBucket
     /\ pc = "exited" /\ ~Faulted)
    => exitCode = "0"

\* C5: with no other actor interfering, a forced delete-bucket of an existing
\* non-empty bucket deletes every object of the bucket before it issues
\* delete_bucket, removes the bucket and only the bucket, and exits 0.
C5_ForcedDeleteBucket ==
    (/\ cmd.subparser_name = "delete-bucket" /\ cmd.f /\ Quiet
     /\ B \in pre.buckets /\ pre.objects[B] # EmptyBucket)
    => /\ ~Faulted
       /\ \A i \in 1..Len(calls) :
            calls[i] = <<"delete_bucket", B>> =>
              \A k \in Keys : pre.objects[B][k] # NoObj =>
                 \E j \in 1..(i - 1) : calls[j] = <<"delete_object", B, k>>
       /\ Returned => /\ ret = "True"
                      /\ ~bucket_exists(B)
                      /\ Issued(<<"delete_bucket", B>>)
                      /\ buckets = pre.buckets \ {B}
                      /\ \A b \in Buckets \ {B} : objects[b] = pre.objects[b]
       /\ ExitIs("0")

C5_Witness ==
    /\ cmd.subparser_name = "delete-bucket" /\ cmd.f /\ Quiet
    /\ \A k \in Keys : pre.objects[B][k] # NoObj
    /\ pc = "exited" /\ exitCode = "0" /\ ~bucket_exists(B)
    /\ \A k \in Keys : Issued(<<"delete_object", B, k>>)

\* C6: with no other actor interfering, delete-bucket without force on a
\* non-empty bucket fails with BucketNotEmpty, and delete-bucket on a missing
\* bucket fails with BucketNotFound; neither issues a delete call nor changes
\* the store, and both exit 1.
C6_DeleteBucketRefused ==
    (/\ cmd.subparser_name = "delete-bucket" /\ Quiet
     /\ \/ B \notin pre.buckets
        \/ ~cmd.f /\ pre.objects[B] # EmptyBucket)
    => /\ ~Faulted
       /\ \A i \in 1..Len(calls) : calls[i][1] \notin {"delete_object", "delete_bucket"}
       /\ StoreUnchanged
       /\ Returned => /\ ret = "False"
                      /\ log = <<IF B \in pre.buckets THEN "BucketNotEmpty" ELSE "BucketNotFound">>
       /\ ExitIs("1")

C6_Witness ==
    /\ cmd.subparser_name = "delete-bucket" /\ Quiet /\ ~cmd.f
    /\ B \in pre.buckets /\ pre.objects[B] # EmptyBucket
    /\ pc = "exited" /\ exitCode = "1" /\ log = <<"BucketNotEmpty">>
    /\ bucket_exists(B) /\ objects[B] = pre.objects[B]

\* C7: an upload of a regular file to a bucket that does not exist issues
\* create_bucket before upload_file; when it reports success the bucket and
\* the key exist; when the bucket is absent at the check after create_bucket
\* it fails with BucketCreateFailed without an upload call; and with no other
\* actor interfering it succeeds.
C7_UploadCreatesBucketFirst ==
    (/\ cmd.subparser_name = "upload"
     /\ B \notin pre.buckets /\ pre.files[H] # NoObj)
    => /\ \A i \in 1..Len(calls) :
            calls[i] = <<"upload_file", B, K>> =>
              \E j \in 1..(i - 1) : calls[j] = <<"create_bucket", B>>
       /\ (Returned /\ ret = "True") => bucket_exists(B) /\ file_check(K, B)
       /\ (Returned /\ ~Faulted /\ ~bucket_exists(B)
             /\ calls[Len(calls)] = list_buckets)
            => log = <<"BucketCreateFailed">>
       /\ (log # <<>> /\ log[1] = "BucketCreateFailed")
            => ret = "False" /\ ~Issued(<<"upload_file", B, K>>) /\ ExitIs("1")
       /\ Quiet => /\ ~Faulted
                   /\ Returned => ret = "True" /\ objects[B][K] = pre.files[H]
                   /\ ExitIs("0")

C7_Witness ==
    /\ cmd.subparser_name = "upload" /\ Quiet
    /\ B \notin pre.buckets /\ pre.files[H] # NoObj
    /\ pc = "exited" /\ exitCode = "0"
    /\ bucket_exists(B) /\ file_check(K, B)
    /\ calls = <<list_buckets, <<"create_bucket", B>>, list_buckets, list_objects,
                 <<"upload_file", B, K>>, list_objects>>

\* C8: delete-file fails with BucketNotFound for a missing bucket and with
\* ObjectNotFound for a missing key, before any delete call and with the store
\* unchanged; otherwise it issues the delete, reports success only if the key
\* is absent at the check after it, and (no other actor interfering) removes
\* that key and nothing else.
C8_DeleteObject ==
    cmd.subparser_name = "delete-file"
    => /\ (log # <<>> /\ log[1] \in {"BucketNotFound", "ObjectNotFound"})
            => /\ ~Issued(<<"delete_object", B, K>>)
               /\ ret = "False"
               /\ ExitIs("1")
       /\ (Returned /\ ret = "True")
            => /\ Issued(<<"delete_object", B, K>>)
               /\ bucket_exists(B) /\ ~file_check(K, B)
       /\ Quiet =>
            /\ B \in pre.buckets => ~Faulted
            /\ (B \notin pre.buckets \/ pre.objects[B][K] = NoObj)
                 => /\ StoreUnchanged
                    /\ ~Issued(<<"delete_object", B, K>>)
                    /\ Returned => log = <<IF B \in pre.buckets THEN "ObjectNotFound"
                                                               ELSE "BucketNotFound">>
            /\ (B \in pre.buckets /\ pre.objects[B][K] # NoObj)
                 => /\ buckets = pre.buckets
                    /\ \A b \in Buckets, k \in Keys :
                         <<b, k>> # <<B, K>> => objects[b][k] = pre.objects[b][k]
                    /\ Returned => /\ ret = "True"
                                   /\ objects[B][K] = NoObj
                                   /\ log = <<>>
                    /\ ExitIs("0")

C8_Witness ==
    /\ cmd.subparser_name = "delete-file" /\ Quiet
    /\ \A k \in Keys : pre.objects[B][k] # NoObj
    /\ pc = "exited" /\ exitCode = "0"
    /\ objects[B] = [pre.objects[B] EXCEPT ![K] = NoObj]

\* C9: the check-then-act sequences are not atomic.  An unforced upload
\* overwrites an existing object, and delete-file reports a failed deletion
\* after its delete call, and each happens only when another actor has put
\* that key between the tool's check and its next call.
C9_RacesComeFromInterference ==
    [][/\ (/\ cmd.subparser_name = "upload" /\ ~cmd.f
           /\ pc = "up103" /\ pc' = "up104"
           /\ objects[B][K] # NoObj)
          => <<"ext_put", B, K>> \in ExtSinceLastCall
       /\ (/\ cmd.subparser_name = "delete-file"
           /\ pc = "df164"
           /\ log' = Append(log, "DeleteVerificationFailed"))
          => <<"ext_put", B, K>> \in ExtSinceLastCall]_vars

\* C9 (i): the key was absent at the check, another actor created it, the
\* upload overwrote it and reported success
C9_Witness ==
    /\ cmd.subparser_name = "upload" /\ ~cmd.f
    /\ pre.files[H] = "c1"
    /\ calls = <<list_buckets, list_objects, <<"ext_put", B, K>>,
                 <<"upload_file", B, K>>, list_objects>>
    /\ pc = "exited" /\ exitCode = "0" /\ objects[B][K] = "c1"

\* C9 (ii): the delete was issued, another actor re-created the key before
\* the check after it, and delete-file reported failure
C9_FalseFailureReached ==
    /\ cmd.subparser_name = "delete-file"
    /\ calls = <<list_buckets, list_objects, <<"delete_object", B, K>>,
                 <<"ext_put", B, K>>, list_objects>>
    /\ pc = "exited" /\ exitCode = "1" /\ log = <<"DeleteVerificationFailed">>

\* C10: with no other actor interfering, a failed upload leaves the store as
\* it was, except that an upload to a missing bucket of something that is not
\* a regular file fails with LocalFileNotFound after the bucket was created;
\* a failure with BucketCreateFailed leaves the bucket absent.
C10_FailedUploadEffects ==
    (cmd.subparser_name = "upload" /\ Returned /\ ret = "False")
    => /\ (log = <<"BucketCreateFailed">>)
            => B \notin pre.buckets /\ ~bucket_exists(B) /\ ~Issued(<<"upload_file", B, K>>)
       /\ Quiet =>
            IF B \notin pre.buckets /\ pre.files[H] = NoObj
              THEN /\ log = <<"LocalFileNotFound">>
                   /\ buckets = pre.buckets \cup {B}
                   /\ objects = pre.objects
                   /\ ExitIs("1")
              ELSE /\ StoreUnchanged
                   /\ log \in {<<"LocalFileNotFound">>, <<"ObjectAlreadyExists">>}
                   /\ ExitIs("1")

C10_Witness ==
    /\ cmd.subparser_name = "upload" /\ Quiet
    /\ B \notin pre.buckets /\ pre.files[H] = NoObj
    /\ pc = "exited" /\ exitCode = "1" /\ log = <<"LocalFileNotFound">>
    /\ bucket_exists(B) /\ objects[B] = EmptyBucket
====
